---------------------------- MODULE Spec2Model ----------------------------
(***************************************************************************)
(* A model of the EPCM Project Scorecard (scorecard-app-v1.1.py): the      *)
(* calculation helpers (duration parsing, week bucketing, function         *)
(* classification, rate lookup, earned value) as operators, and the        *)
(* Streamlit session (st.session_state) with the handlers that change it   *)
(* as actions.                                                             *)
(*                                                                         *)
(* Representation.                                                         *)
(*   - A Python str whose characters matter (a duration, a task label, a   *)
(*     date) is a sequence of one-character strings.  A missing cell       *)
(*     (NaN / None, pd.isna) is the one-element sequence NAStr.            *)
(*   - A str that is only compared for equality (a staff name, a position) *)
(*     is a TLA+ string; the missing value is NA.                          *)
(*   - A float is an exact fraction [n, d] with d > 0; d = 0 encodes the   *)
(*     IEEE specials: [0,0] is nan, [1,0] is inf, [-1,0] is -inf.  Binary  *)
(*     rounding is not modelled.                                           *)
(*   - A Timestamp is the proleptic Gregorian ordinal of its day           *)
(*     (date.toordinal()); every date the application builds comes from a  *)
(*     '%Y-%m-%d' string or a date widget, so it has no time of day.       *)
(***************************************************************************)
EXTENDS Integers, Sequences, FiniteSets, TLC

VARIABLES
    arg,               \* the argument(s) of the helper under examination
    ret,               \* what the helper returned for arg (Pending before the call)
    project_setup,     \* st.session_state.project_setup
    staff,             \* st.session_state.staff      (DataFrame: sequence of rows)
    rates,             \* st.session_state.rates      (DataFrame: sequence of rows)
    deliverables,      \* st.session_state.deliverables (DataFrame: columns and rows)
    timesheets,        \* st.session_state.timesheets (DataFrame: sequence of rows)
    weekly_forecasts,  \* st.session_state.weekly_forecasts (dict)
    message            \* the outcome the last handler displayed

vars == <<arg, ret, project_setup, staff, rates, deliverables, timesheets,
          weekly_forecasts, message>>

session == <<project_setup, staff, rates, deliverables, timesheets,
             weekly_forecasts, message>>

(***************************************************************************)
(* Bounds of the model.                                                    *)
(***************************************************************************)
MaxDays == 15          \* dates examined: FirstDay .. FirstDay + MaxDays
MaxFutureWeeks == 2    \* num_future_weeks examined: 0 .. MaxFutureWeeks
MaxStrLen == 5         \* longest duration string examined
MaxFragments == 2      \* task labels examined: up to this many fragments
MaxTableRows == 2      \* longest staff / rate table examined by the lookups
MaxDeliverables == 2   \* longest deliverables table examined by earned value
MaxBatch == 2          \* longest uploaded CSV examined by one import
MaxSessionBatch == 1   \* longest uploaded CSV examined within a whole session

(***************************************************************************)
(* Sequences and characters.                                               *)
(***************************************************************************)
NA == "<NA>"
NAStr == <<NA>>
Pending == [fn |-> "none", val |-> <<>>]

Range(s) == {s[i] : i \in 1..Len(s)}

SeqsUpTo(S, n) == UNION {[1..k -> S] : k \in 0..n}

RECURSIVE SumSeq(_)
SumSeq(s) == IF s = <<>> THEN 0 ELSE s[1] + SumSeq(Tail(s))

LowerCase == <<"a","b","c","d","e","f","g","h","i","j","k","l","m",
               "n","o","p","q","r","s","t","u","v","w","x","y","z">>
UpperCase == <<"A","B","C","D","E","F","G","H","I","J","K","L","M",
               "N","O","P","Q","R","S","T","U","V","W","X","Y","Z">>
DigitChars == <<"0","1","2","3","4","5","6","7","8","9">>

UpperOf == [c \in {LowerCase[i] : i \in 1..26} |-> UpperCase[CHOOSE i \in 1..26 : LowerCase[i] = c]]
DigitSet == {DigitChars[i] : i \in 1..10}
DigitOf == [c \in DigitSet |-> (CHOOSE i \in 1..10 : DigitChars[i] = c) - 1]

\* str.upper(), one character
UpperChar(c) == IF c \in DOMAIN UpperOf THEN UpperOf[c] ELSE c

\* str.upper()
Upper(s) == [i \in 1..Len(s) |-> UpperChar(s[i])]

IsDigit(c) == c \in DigitSet
DigitVal(c) == DigitOf[c]

\* `sub in s' for two str
Contains(s, sub) ==
    \E i \in 0..(Len(s) - Len(sub)) :
        \A j \in 1..Len(sub) : s[i + j] = sub[j]

\* str.split(sep): the pieces between the occurrences of the character sep
RECURSIVE SplitFrom(_, _, _, _)
SplitFrom(s, sep, i, cur) ==
    IF i > Len(s) THEN <<cur>>
    ELSE IF s[i] = sep THEN <<cur>> \o SplitFrom(s, sep, i + 1, <<>>)
    ELSE SplitFrom(s, sep, i + 1, Append(cur, s[i]))

Split(s, sep) == SplitFrom(s, sep, 1, <<>>)

\* str.strip() of blanks
RECURSIVE Strip(_)
Strip(s) ==
    IF s = <<>> THEN s
    ELSE IF Head(s) = " " THEN Strip(Tail(s))
    ELSE IF s[Len(s)] = " " THEN Strip(SubSeq(s, 1, Len(s) - 1))
    ELSE s

(***************************************************************************)
(* Exact fractions for Python floats.                                      *)
(***************************************************************************)
Frac(n, d) == [n |-> n, d |-> d]
Zero == Frac(0, 1)
NaNFloat == Frac(0, 0)
IsFinite(x) == x.d > 0
IsNaN(x) == x.d = 0 /\ x.n = 0

Abs(k) == IF k < 0 THEN -k ELSE k
RECURSIVE Gcd(_, _)
Gcd(a, b) == IF b = 0 THEN a ELSE Gcd(b, a % b)
\* the fraction in lowest terms (the specials are kept)
Norm(x) ==
    IF x.d = 0 THEN Frac(IF x.n > 0 THEN 1 ELSE IF x.n < 0 THEN -1 ELSE 0, 0)
    ELSE LET g == Gcd(Abs(x.n), x.d) IN Frac(x.n \div g, x.d \div g)

\* finite floats only: the application adds and multiplies hours, rates and budgets
RAdd(x, y) == Norm(Frac(x.n * y.d + y.n * x.d, x.d * y.d))
RMul(x, y) == Norm(Frac(x.n * y.n, x.d * y.d))
RInt(k) == Frac(k, 1)
\* x == y on floats: nan equals nothing, itself included
REq(x, y) == ~IsNaN(x) /\ ~IsNaN(y) /\ Norm(x) = Norm(y)
\* x >= 0 on floats: False for nan
RNonNeg(x) == ~IsNaN(x) /\ x.n >= 0

RECURSIVE Pow10(_)
Pow10(k) == IF k = 0 THEN 1 ELSE 10 * Pow10(k - 1)


(***************************************************************************)
(* Python's int(str) and float(str).                                       *)
(***************************************************************************)
\* a run of decimal digits, single underscores allowed between digits
DigitGroupOk(g) ==
    /\ g # <<>>
    /\ \A i \in 1..Len(g) : IsDigit(g[i]) \/ g[i] = "_"
    /\ IsDigit(g[1]) /\ IsDigit(g[Len(g)])
    /\ \A i \in 1..(Len(g) - 1) : ~(g[i] = "_" /\ g[i + 1] = "_")

RECURSIVE DigitGroupAcc(_, _)
DigitGroupAcc(g, acc) ==
    IF g = <<>> THEN acc
    ELSE IF Head(g) = "_" THEN DigitGroupAcc(Tail(g), acc)
    ELSE DigitGroupAcc(Tail(g), 10 * acc + DigitVal(Head(g)))

DigitGroupVal(g) == DigitGroupAcc(g, 0)
DigitCount(g) == Cardinality({i \in 1..Len(g) : IsDigit(g[i])})

HasSign(t) == t # <<>> /\ Head(t) \in {"-", "+"}
Unsigned(t) == IF HasSign(t) THEN Tail(t) ELSE t
SignOf(t) == IF t # <<>> /\ Head(t) = "-" THEN -1 ELSE 1

\* int(s) returns (does not raise ValueError)
IntOk(s) == DigitGroupOk(Unsigned(Strip(s)))
\* int(s), when it returns
IntVal(s) == SignOf(Strip(s)) * DigitGroupVal(Unsigned(Strip(s)))

FloatSpecials == { <<"I","N","F">>, <<"I","N","F","I","N","I","T","Y">>, <<"N","A","N">> }

MantissaOk(m) ==
    LET mp == Split(m, ".") IN
    \/ Len(mp) = 1 /\ DigitGroupOk(mp[1])
    \/ /\ Len(mp) = 2
       /\ mp[1] = <<>> \/ DigitGroupOk(mp[1])
       /\ mp[2] = <<>> \/ DigitGroupOk(mp[2])
       /\ ~(mp[1] = <<>> /\ mp[2] = <<>>)

\* float(s) returns (does not raise ValueError)
FloatOk(s) ==
    LET u == Upper(Unsigned(Strip(s)))
        ep == Split(u, "E")
    IN  \/ u \in FloatSpecials
        \/ Len(ep) = 1 /\ MantissaOk(ep[1])
        \/ Len(ep) = 2 /\ MantissaOk(ep[1]) /\ DigitGroupOk(Unsigned(ep[2]))

\* float(s), when it returns
FloatVal(s) ==
    LET t == Strip(s)
        u == Upper(Unsigned(t))
        ep == Split(u, "E")
        mp == Split(ep[1], ".")
        ip == IF mp[1] = <<>> THEN 0 ELSE DigitGroupVal(mp[1])
        fd == IF Len(mp) = 2 THEN DigitCount(mp[2]) ELSE 0
        fp == IF Len(mp) = 2 /\ mp[2] # <<>> THEN DigitGroupVal(mp[2]) ELSE 0
        ex == IF Len(ep) = 2 THEN SignOf(ep[2]) * DigitGroupVal(Unsigned(ep[2])) ELSE 0
        num == SignOf(t) * (ip * Pow10(fd) + fp)
    IN  IF u = <<"N","A","N">> THEN NaNFloat
        ELSE IF u \in FloatSpecials THEN Frac(SignOf(t), 0)
        ELSE IF ex >= 0 THEN Frac(num * Pow10(ex), Pow10(fd))
        ELSE Frac(num, Pow10(fd) * Pow10(-ex))

(***************************************************************************)
(* A cell of the 'time' column: missing, a number, or a str.               *)
(***************************************************************************)
NanCell == [kind |-> "nan", num |-> Zero, str |-> <<>>]
NumCell(x) == [kind |-> "num", num |-> x, str |-> <<>>]
StrCell(s) == [kind |-> "str", num |-> Zero, str |-> s]

Returned(v) == [raised |-> FALSE, val |-> v]
Raised == [raised |-> TRUE, val |-> Zero]

\* hours + (minutes / 60.0) + (seconds / 3600.0)
HoursOfMut(h, m, s) == Frac(3600 * h + 60 * m, 3600)
HoursOf(h, m, s) == Frac(3600 * h + 60 * m + s, 3600)

\* the body of the try block of parse_time_to_hours
parse_time_try(x) ==
    IF x.kind = "nan" \/ (x.kind = "num" /\ IsNaN(x.num)) \/ (x.kind = "str" /\ x.str = <<>>)
    THEN Returned(Zero)
    ELSE IF x.kind = "num" THEN Returned(x.num)
    ELSE LET parts == Split(x.str, ":") IN
         IF Len(parts) = 3
         THEN IF IntOk(parts[1]) /\ IntOk(parts[2]) /\ IntOk(parts[3])
              THEN Returned(HoursOf(IntVal(parts[1]), IntVal(parts[2]), IntVal(parts[3])))
              ELSE Raised
         ELSE IF Len(parts) = 2
         THEN IF IntOk(parts[1]) /\ IntOk(parts[2])
              THEN Returned(HoursOf(IntVal(parts[1]), IntVal(parts[2]), 0))
              ELSE Raised
         ELSE IF FloatOk(x.str) THEN Returned(FloatVal(x.str)) ELSE Raised

\* the except clause: any exception becomes 0.0
ExceptZeroMut(r) == IF r.raised THEN NaNFloat ELSE r.val
ExceptZero(r) == IF r.raised THEN Zero ELSE r.val

parse_time_to_hours(x) == ExceptZero(parse_time_try(x))

(***************************************************************************)
(* Dates.                                                                  *)
(***************************************************************************)
NaT == -1

IsLeap(y) == y % 4 = 0 /\ (y % 100 # 0 \/ y % 400 = 0)
DaysInMonth(y, m) ==
    IF m = 2 THEN (IF IsLeap(y) THEN 29 ELSE 28)
    ELSE IF m \in {4, 6, 9, 11} THEN 30 ELSE 31
DaysBeforeYear(y) == (y - 1) * 365 + (y - 1) \div 4 - (y - 1) \div 100 + (y - 1) \div 400
RECURSIVE DaysBeforeMonth(_, _)
DaysBeforeMonth(y, m) == IF m = 1 THEN 0 ELSE DaysBeforeMonth(y, m - 1) + DaysInMonth(y, m - 1)

\* date(y, m, d).toordinal()
Ordinal(y, m, d) == DaysBeforeYear(y) + DaysBeforeMonth(y, m) + d
\* Timestamp.weekday(): 0 = Monday .. 6 = Sunday
Weekday(t) == (t + 6) % 7

YearOf(t) == CHOOSE y \in 2024..2027 : DaysBeforeYear(y) < t /\ t <= DaysBeforeYear(y + 1)
MonthOf(t) ==
    LET y == YearOf(t) r == t - DaysBeforeYear(y) IN
    CHOOSE m \in 1..12 : DaysBeforeMonth(y, m) < r /\ r <= DaysBeforeMonth(y, m) + DaysInMonth(y, m)
DayOf(t) == t - DaysBeforeYear(YearOf(t)) - DaysBeforeMonth(YearOf(t), MonthOf(t))

Digits(k, width) == [i \in 1..width |-> DigitChars[((k \div Pow10(width - i)) % 10) + 1]]

\* Timestamp.strftime('%Y-%m-%d')
strftime(t) == Digits(YearOf(t), 4) \o <<"-">> \o Digits(MonthOf(t), 2) \o <<"-">> \o Digits(DayOf(t), 2)

\* the str is an ISO 'YYYY-MM-DD' date of the calendar
IsIsoDate(s) ==
    /\ Len(s) = 10 /\ s[5] = "-" /\ s[8] = "-"
    /\ \A i \in {1, 2, 3, 4, 6, 7, 9, 10} : IsDigit(s[i])
    /\ LET y == DigitGroupVal(SubSeq(s, 1, 4))
           m == DigitGroupVal(SubSeq(s, 6, 7))
           d == DigitGroupVal(SubSeq(s, 9, 10))
       IN  y >= 1 /\ m \in 1..12 /\ d >= 1 /\ d <= DaysInMonth(y, m)

\* pd.to_datetime(s) raises on a str that is no date
ToDatetimeRaises(s) == s # NAStr /\ ~IsIsoDate(s)
\* pd.to_datetime(s): the Timestamp of an ISO date, NaT for a missing cell
to_datetime(s) ==
    IF s = NAStr THEN NaT
    ELSE Ordinal(DigitGroupVal(SubSeq(s, 1, 4)), DigitGroupVal(SubSeq(s, 6, 7)),
                 DigitGroupVal(SubSeq(s, 9, 10)))

\* (5 - date_obj.weekday()) % 7, and 7 when that is 0
DaysUntilSaturdayMut(t) == (5 - Weekday(t)) % 7
DaysUntilSaturday(t) ==
    LET days_until_saturday == (5 - Weekday(t)) % 7 IN
    IF days_until_saturday = 0 THEN 7 ELSE days_until_saturday

\* NaT.weekday() is nan, and timedelta(days=nan) raises ValueError
WeekEndingRaises(t) == t = NaT
calculate_week_ending(t) == t + DaysUntilSaturday(t)

\* the while loop of get_week_list: current, current + 7, ... while current <= end
WeekLoopGuardMut(current, end) == current < end
WeekLoopGuard(current, end) == current <= end

RECURSIVE WeeksWhile(_, _)
WeeksWhile(current, end) ==
    IF WeekLoopGuard(current, end) THEN <<current>> \o WeeksWhile(current + 7, end) ELSE <<>>

get_week_list(start_date, end_date, num_future_weeks) ==
    LET first == calculate_week_ending(start_date)
        end == calculate_week_ending(end_date)
        weeks == WeeksWhile(first, end)
        current == first + 7 * Len(weeks)
    IN  weeks \o [i \in 1..num_future_weeks |-> current + 7 * (i - 1)]


(***************************************************************************)
(* Classification and rate resolution.                                     *)
(***************************************************************************)
ManagementKeys == { <<"P","M">>, <<"M","A","N","A","G","E","M","E","N","T">> }
DraftingKeys == { <<"D","F">>, <<"D","R","A","F","T">>, <<"3","D">> }

ContainsAny(s, keys) == \E k \in keys : Contains(s, k)

\* the if / elif / else of map_function, on the uppercased label
ClassifyUpperMut(task_upper) ==
    IF ContainsAny(task_upper, DraftingKeys) THEN "DRAFTING"
    ELSE IF ContainsAny(task_upper, ManagementKeys) THEN "MANAGEMENT"
    ELSE "ENGINEERING"
ClassifyUpper(task_upper) ==
    IF ContainsAny(task_upper, ManagementKeys) THEN "MANAGEMENT"
    ELSE IF ContainsAny(task_upper, DraftingKeys) THEN "DRAFTING"
    ELSE "ENGINEERING"

map_function(task_name) ==
    IF task_name = NAStr THEN "ENGINEERING"
    ELSE ClassifyUpper(Upper(task_name))

FallbackRate == 170

\* df[df[col] == value]: the rows whose cell equals value, in order; a missing
\* cell or a missing value compares False
RECURSIVE RowsWhere(_, _, _)
RowsWhere(df, col, value) ==
    IF df = <<>> THEN <<>>
    ELSE IF value # NA /\ Head(df)[col] = value
         THEN <<Head(df)>> \o RowsWhere(Tail(df), col, value)
         ELSE RowsWhere(Tail(df), col, value)

\* match.iloc[0]: the first matching row
FirstOfMut(match) == match[Len(match)]
FirstOf(match) == match[1]

lookup_rate_by_position(position, rates_df) ==
    IF rates_df = <<>> \/ position = NA THEN FallbackRate
    ELSE LET match == RowsWhere(rates_df, "Position", position) IN
         IF match # <<>> THEN FirstOf(match).Rate ELSE FallbackRate

get_staff_rate(staff_name, staff_df, rates_df) ==
    IF staff_df = <<>> THEN FallbackRate
    ELSE LET match == RowsWhere(staff_df, "Name", staff_name) IN
         IF match # <<>>
         THEN lookup_rate_by_position(FirstOf(match).Position, rates_df)
         ELSE FallbackRate

(***************************************************************************)
(* Earned value.  A deliverables DataFrame is [cols, rows]: the set of its *)
(* column labels and its rows, each a function on cols.                    *)
(***************************************************************************)
Functions == <<"MANAGEMENT", "ENGINEERING", "DRAFTING">>

\* {'MANAGEMENT': 245, 'ENGINEERING': 180, 'DRAFTING': 170}.get(func, 180)
StandardRate(func) ==
    CASE func = "MANAGEMENT" -> 245
      [] func = "ENGINEERING" -> 180
      [] func = "DRAFTING" -> 170
      [] OTHER -> 180

RECURSIVE ColumnSum(_, _)
\* df[col].sum() of a float column
ColumnSum(rows, col) ==
    IF rows = <<>> THEN Zero ELSE RAdd(Head(rows)[col], ColumnSum(Tail(rows), col))

RECURSIVE FilterRows(_, _, _)
FilterRows(rows, col, value) ==
    IF rows = <<>> THEN <<>>
    ELSE IF Head(rows)[col] = value
         THEN <<Head(rows)>> \o FilterRows(Tail(rows), col, value)
         ELSE FilterRows(Tail(rows), col, value)

\* budget_hours * completion / 100.0
EarnedHoursOf(budget_hours, completion) == Frac(budget_hours * completion, 100)

\* deliverables_df['earned_hours'] = ...: the column is added to (or replaced in)
\* the caller's DataFrame
WithEarnedHours(df) ==
    [cols |-> df.cols \cup {"earned_hours"},
     rows |-> [i \in 1..Len(df.rows) |->
                 ("earned_hours" :> EarnedHoursOf(df.rows[i]["budget_hours"],
                                                   df.rows[i]["completion"]))
                 @@ df.rows[i]]]

\* the column the for loop selects by: deliverables_df['function']
GroupColumn == "function"

RECURSIVE EarnedCostOver(_, _)
\* the for loop over the three functions
EarnedCostOver(funcs, rows) ==
    IF funcs = <<>> THEN Zero
    ELSE LET func_deliverables == FilterRows(rows, GroupColumn, Head(funcs))
             rest == EarnedCostOver(Tail(funcs), rows)
         IN  IF func_deliverables # <<>>
             THEN RAdd(RMul(ColumnSum(func_deliverables, "earned_hours"),
                            RInt(StandardRate(Head(funcs)))), rest)
             ELSE rest

\* What a call leaves behind: whether it raised KeyError, the dict it returned
\* and the DataFrame it was handed, as the call left it.
calculate_earned_value(df) ==
    IF df.rows = <<>>
    THEN [raised |-> FALSE, earned_hours |-> Zero, earned_cost |-> Zero, df |-> df]
    ELSE IF ~({"budget_hours", "completion"} \subseteq df.cols)
    THEN [raised |-> TRUE, earned_hours |-> Zero, earned_cost |-> Zero, df |-> df]
    ELSE LET after == WithEarnedHours(df) IN
         IF GroupColumn \notin after.cols
         THEN [raised |-> TRUE, earned_hours |-> Zero, earned_cost |-> Zero, df |-> after]
         ELSE [raised |-> FALSE,
               earned_hours |-> ColumnSum(after.rows, "earned_hours"),
               earned_cost |-> EarnedCostOver(Functions, after.rows),
               df |-> after]


(***************************************************************************)
(* The session: st.session_state as initialize_session_state builds it.    *)
(***************************************************************************)
\* 'YYYY-MM-DD' of October 2025, the month of the sample data
Oct2025(day) == <<"2","0","2","5","-","1","0","-">> \o Digits(day, 2)

\* the project_setup dict for a session started on the day `today'
InitProjectSetup(today) ==
    [client |-> "", project_name |-> "", project_type |-> "EPCM",
     start_date |-> strftime(today - 30),
     end_date |-> strftime(today + 90),
     report_date |-> strftime(today),
     report_by |-> "", currency |-> "AUD",
     budget_management |-> 50, budget_engineering |-> 200, budget_drafting |-> 100,
     contract_value |-> 100000, contingency_pct |-> 10]

StaffRow(name, function, discipline, position) ==
    [Name |-> name, Function |-> function, Discipline |-> discipline, Position |-> position]

InitStaff ==
    << StaffRow("Gavin Andersen", "MANAGEMENT", "GN", "Engineering Manager"),
       StaffRow("Mark Rankin", "DRAFTING", "GN", "Drawing Office Manager"),
       StaffRow("Ben Robinson", "ENGINEERING", "ME", "Senior Engineer"),
       StaffRow("Will Smith", "ENGINEERING", "ME", "Lead Engineer"),
       StaffRow("Ben Bowles", "ENGINEERING", "ME", "Senior Engineer") >>

RateRow(position, rate) == [Position |-> position, Rate |-> rate]

InitRates ==
    << RateRow("Engineering Manager", 245), RateRow("Lead Engineer", 195),
       RateRow("Senior Engineer", 170), RateRow("Drawing Office Manager", 195),
       RateRow("Lead Designer", 165), RateRow("Senior Designer", 150),
       RateRow("Designer", 140), RateRow("Principal Engineer", 210),
       RateRow("Technical Reviewer", 245) >>

DeliverableColumns == {"Deliverable", "Function", "Discipline", "budget_hours", "completion", "status"}

DeliverableRow(name, function, discipline, budget_hours, completion, status) ==
    [Deliverable |-> name, Function |-> function, Discipline |-> discipline,
     budget_hours |-> budget_hours, completion |-> completion, status |-> status]

InitDeliverables ==
    [cols |-> DeliverableColumns,
     rows |-> <<
       DeliverableRow("Project Management Plan", "MANAGEMENT", "GN", 20, 100, "Complete"),
       DeliverableRow("Process Flow Diagrams", "ENGINEERING", "ME", 40, 80, "In Progress"),
       DeliverableRow("P&IDs - General Arrangement", "ENGINEERING", "ME", 60, 50, "In Progress"),
       DeliverableRow("Equipment List", "ENGINEERING", "ME", 30, 60, "In Progress"),
       DeliverableRow("Piping Layout Drawings", "DRAFTING", "GN", 80, 40, "In Progress"),
       DeliverableRow("Structural Design Drawings", "DRAFTING", "ST", 60, 20, "Started"),
       DeliverableRow("Electrical Single Line Diagrams", "ENGINEERING", "EE", 40, 30, "Started"),
       DeliverableRow("I&C Architecture", "ENGINEERING", "IC", 50, 10, "Started"),
       DeliverableRow("Final Report", "MANAGEMENT", "GN", 20, 0, "Not Started") >>]

\* the day the helpers are examined on, and the project_setup of that day
FirstDay == Ordinal(2025, 10, 6)
FirstDaySetup == InitProjectSetup(FirstDay)

\* the session right after initialize_session_state, project_setup being `setup'
SessionInit(setup) ==
    /\ project_setup = setup
    /\ staff = InitStaff
    /\ rates = InitRates
    /\ deliverables = InitDeliverables
    /\ timesheets = <<>>
    /\ weekly_forecasts = <<>>
    /\ message = "none"

(***************************************************************************)
(* Timesheet rows and their normalisation.                                 *)
(***************************************************************************)
RawRow(date, job_name, staff_name, task_name, time) ==
    [date |-> date, job_name |-> job_name, staff_name |-> staff_name,
     task_name |-> task_name, time |-> time]

TaskPM == <<"P","M"," ","-"," ","M","a","n","a","g","e","m","e","n","t">>
TaskEN == <<"E","N"," ","-"," ","M","e","c","h"," ","D","e","s","i","g","n">>
TaskVariation == <<"E","N"," ","-"," ","V","a","r","i","a","t","i","o","n">>
TaskDF == <<"D","F"," ","-"," ","P","i","p","i","n","g"," ","3","D">>

sample_data ==
    << RawRow(Oct2025(7), "Tails Pump Assessment", "Gavin Andersen", TaskPM,
              StrCell(<<"0","1",":","0","0",":","0","0">>)),
       RawRow(Oct2025(8), "Tails Pump Assessment", "Ben Robinson", TaskEN,
              StrCell(<<"0","4",":","0","0",":","0","0">>)),
       RawRow(Oct2025(9), "Tails Pump Assessment", "Ben Robinson", TaskEN,
              StrCell(<<"0","7",":","0","0",":","0","0">>)),
       RawRow(Oct2025(9), "Tails Pump Assessment", "Gavin Andersen", TaskPM,
              StrCell(<<"0","1",":","0","0",":","0","0">>)),
       RawRow(Oct2025(10), "Tails Pump Assessment", "Ben Robinson", TaskEN,
              StrCell(<<"0","8",":","2","4",":","0","0">>)),
       RawRow(Oct2025(13), "Tails Pump Assessment", "Ben Robinson", TaskEN,
              StrCell(<<"0","8",":","0","0",":","0","0">>)),
       RawRow(Oct2025(13), "Tails Pump Assessment", "Will Smith", TaskEN,
              StrCell(<<"0","2",":","0","0",":","0","0">>)),
       RawRow(Oct2025(14), "Tails Pump Assessment", "Ben Robinson", TaskEN,
              StrCell(<<"0","8",":","0","0",":","0","0">>)),
       RawRow(Oct2025(14), "Tails Pump Assessment", "Will Smith", TaskEN,
              StrCell(<<"0","2",":","0","0",":","0","0">>)),
       RawRow(Oct2025(14), "Tails Pump Assessment", "Ben Bowles", TaskVariation,
              StrCell(<<"0","4",":","3","0",":","0","0">>)),
       RawRow(Oct2025(13), "Tails Pump Assessment", "Mark Rankin", TaskDF,
              StrCell(<<"0","2",":","0","0",":","0","0">>)),
       RawRow(Oct2025(14), "Tails Pump Assessment", "Mark Rankin", TaskDF,
              StrCell(<<"0","2",":","0","0",":","0","0">>)),
       RawRow(Oct2025(21), "Tails Pump Assessment", "Ben Robinson", TaskEN,
              StrCell(<<"0","6",":","0","0",":","0","0">>)),
       RawRow(Oct2025(22), "Tails Pump Assessment", "Will Smith", TaskEN,
              StrCell(<<"0","8",":","0","0",":","0","0">>)),
       RawRow(Oct2025(23), "Tails Pump Assessment", "Mark Rankin", TaskDF,
              StrCell(<<"0","4",":","0","0",":","0","0">>)) >>

\* df['cost'] = df['hours'] * df['rate']
CostOf(hours, rate) == RMul(hours, RInt(rate))

\* the derived columns of one row: hours, week_ending, function, rate, cost;
\* `date' is what the date column holds afterwards
NormalizedRow(raw, date, staff_df, rates_df) ==
    LET hours == parse_time_to_hours(raw.time)
        rate == get_staff_rate(raw.staff_name, staff_df, rates_df)
    IN  [date |-> date, job_name |-> raw.job_name, staff_name |-> raw.staff_name,
         task_name |-> raw.task_name, time |-> raw.time,
         hours |-> hours,
         week_ending |-> calculate_week_ending(to_datetime(raw.date)),
         function |-> map_function(raw.task_name),
         rate |-> rate,
         cost |-> CostOf(hours, rate)]

\* pd.to_datetime(df['date']) raises on a cell that is no date, and
\* calculate_week_ending raises on the NaT of a missing cell
DateColumnRaises(df) ==
    \E i \in 1..Len(df) :
        ToDatetimeRaises(df[i].date) \/ WeekEndingRaises(to_datetime(df[i].date))

\* load_sample_data: the date column keeps its str
NormalizeSample(df, staff_df, rates_df) ==
    [i \in 1..Len(df) |-> NormalizedRow(df[i], df[i].date, staff_df, rates_df)]

\* page_data_import: the date column becomes Timestamps
NormalizeImport(df, staff_df, rates_df) ==
    [i \in 1..Len(df) |-> NormalizedRow(df[i], to_datetime(df[i].date), staff_df, rates_df)]


(***************************************************************************)
(* The handlers that change the session.                                   *)
(***************************************************************************)
\* load_sample_data, from any of its three buttons
LoadSampleData ==
    /\ timesheets' = NormalizeSample(sample_data, staff, rates)
    /\ project_setup' = [project_setup EXCEPT !.client = "Liontown",
                                              !.project_name = "Tails Pump Assessment",
                                              !.report_by = "Will Smith",
                                              !.report_date = Oct2025(28)]
    /\ message' = "success"
    /\ UNCHANGED <<staff, rates, deliverables, weekly_forecasts>>

\* page_data_import, "Process and Import Data" on the uploaded rows df: an
\* exception anywhere in the try block is reported and nothing is stored
ImportData(df) ==
    /\ IF DateColumnRaises(df)
       THEN /\ message' = "error"
            /\ UNCHANGED timesheets
       ELSE /\ timesheets' = NormalizeImport(df, staff, rates)
            /\ message' = "success"
    /\ UNCHANGED <<project_setup, staff, rates, deliverables, weekly_forecasts>>

\* page_master_data, "Save Rates" with the edited table
SaveRates(rates_df) ==
    /\ rates' = rates_df
    /\ message' = "success"
    /\ UNCHANGED <<project_setup, staff, deliverables, timesheets, weekly_forecasts>>

\* page_master_data, "Save Staff" with the edited table
SaveStaff(staff_df) ==
    /\ staff' = staff_df
    /\ message' = "success"
    /\ UNCHANGED <<project_setup, rates, deliverables, timesheets, weekly_forecasts>>

\* main, "Clear All Data"
ClearAllData ==
    /\ timesheets' = <<>>
    /\ weekly_forecasts' = <<>>
    /\ message' = "success"
    /\ UNCHANGED <<project_setup, staff, rates, deliverables>>

\* page_dashboard with timesheets loaded: calculate_earned_value is handed the
\* session's own deliverables DataFrame; a KeyError ends the script run
ViewDashboard ==
    /\ timesheets # <<>>
    /\ LET ev_data == calculate_earned_value(deliverables) IN
       /\ deliverables' = ev_data.df
       /\ message' = IF ev_data.raised THEN "exception" ELSE "rendered"
    /\ UNCHANGED <<project_setup, staff, rates, timesheets, weekly_forecasts>>

(***************************************************************************)
(* calculate_performance_factor.                                           *)
(***************************************************************************)
\* x < y and x <= y of two finite floats
RLess(x, y) == x.n * y.d < y.n * x.d
RLe(x, y) == x.n * y.d <= y.n * x.d

\* x / y of two finite floats: ZeroDivisionError when y is 0
PyDiv(x, y) ==
    IF y.n = 0 THEN Raised
    ELSE IF y.n > 0 THEN Returned(Norm(Frac(x.n * y.d, x.d * y.n)))
    ELSE Returned(Norm(Frac(-(x.n * y.d), x.d * (-y.n))))

\* if actual > 0
PerformanceGuardMut(actual) == ~IsNaN(actual) /\ RLe(Zero, actual)
PerformanceGuard(actual) == ~IsNaN(actual) /\ RLess(Zero, actual)

calculate_performance_factor(budget, actual) ==
    IF PerformanceGuard(actual) THEN PyDiv(budget, actual) ELSE Returned(RInt(1))

(***************************************************************************)
(* page_s_curves: the four cumulative series and the performance indices.  *)
(***************************************************************************)
\* x / y, y > 0
RDiv(x, y) == Norm(Frac(x.n * y.d, x.d * y.n))
\* Python's min(x, y): x unless y < x
RMin(x, y) == IF RLess(y, x) THEN y ELSE x

RECURSIVE HoursSum(_)
\* df['hours'].sum(): pandas skips the nan cells
HoursSum(rows) ==
    IF rows = <<>> THEN Zero
    ELSE IF IsNaN(Head(rows).hours) THEN HoursSum(Tail(rows))
    ELSE RAdd(Head(rows).hours, HoursSum(Tail(rows)))

\* df[df['week_ending'] <= week]
RowsUpTo(df, week) == SelectSeq(df, LAMBDA row : row.week_ending <= week)

\* get_week_list(start_date, end_date, num_future_weeks=8)
SCurveFutureWeeks == 8

total_budget(setup) ==
    setup.budget_management + setup.budget_engineering + setup.budget_drafting

\* len([w for w in weeks if w <= end_date])
WeeksUpTo(weeks, end_date) == Cardinality({j \in 1..Len(weeks) : weeks[j] <= end_date})

\* lines 518-522: the Budget value of weeks[i]
budget_cum(weeks, i, end_date, budget) ==
    LET total_weeks == WeeksUpTo(weeks, end_date) IN
    IF weeks[i] <= end_date
    THEN LET week_num == WeeksUpTo(SubSeq(weeks, 1, i), end_date) IN
         IF total_weeks > 0 THEN RMul(Frac(week_num, total_weeks), RInt(budget)) ELSE Zero
    ELSE RInt(budget)

\* lines 526-529: the Actual value of a week
actual_cum(df, week, report_date) ==
    IF week <= report_date THEN HoursSum(RowsUpTo(df, week)) ELSE HoursSum(df)

\* lines 534-543: the Earned value of a week, ev_data being what
\* calculate_earned_value returned
earned_cum(df, week, report_date, budget, ev_data) ==
    IF week <= report_date
    THEN IF budget > 0
         THEN RMul(ev_data.earned_hours, RMin(RDiv(HoursSum(df), RInt(budget)), RInt(1)))
         ELSE Zero
    ELSE ev_data.earned_hours

RECURSIVE ForecastHours(_, _, _)
\* sum([hrs for (person, week_str), hrs in weekly_forecasts.items()
\*      if pd.to_datetime(week_str) <= week])
ForecastHours(keys, forecasts, week) ==
    IF keys = {} THEN Zero
    ELSE LET key == CHOOSE k \in keys : TRUE
             rest == ForecastHours(keys \ {key}, forecasts, week)
         IN  IF to_datetime(key[2]) <= week THEN RAdd(forecasts[key], rest) ELSE rest

\* total_budget * 1.2
ForecastCap(budget) == Frac(12 * budget, 10)

\* lines 547-554: the Forecast value of a week
forecast_cum(df, week, report_date, forecasts, budget) ==
    LET forecast == IF week <= report_date
                    THEN actual_cum(df, week, report_date)
                    ELSE RAdd(HoursSum(df), ForecastHours(DOMAIN forecasts, forecasts, week))
    IN  RMin(forecast, ForecastCap(budget))

\* weeks.index(report_date)
IndexOf(weeks, t) == CHOOSE j \in 1..Len(weeks) : weeks[j] = t /\ \A k \in 1..(j - 1) : weeks[k] # t

\* What the loop and the variance analysis compute once calculate_earned_value
\* has returned ev_data.
SCurveSeries(df, setup, forecasts, ev_data) ==
    LET end_date == to_datetime(setup.end_date)
        report_date == to_datetime(setup.report_date)
        weeks == get_week_list(to_datetime(setup.start_date), end_date, SCurveFutureWeeks)
        budget == total_budget(setup)
        budget_curve == [i \in 1..Len(weeks) |-> budget_cum(weeks, i, end_date, budget)]
        current_actual == HoursSum(df)
        current_earned == ev_data.earned_hours
        current_budget == IF \E j \in 1..Len(weeks) : weeks[j] = report_date
                          THEN budget_curve[IndexOf(weeks, report_date)]
                          ELSE RInt(budget)
    IN  [raised |-> FALSE,
         weeks |-> weeks,
         budget_curve |-> budget_curve,
         actual_curve |-> [i \in 1..Len(weeks) |-> actual_cum(df, weeks[i], report_date)],
         earned_curve |-> [i \in 1..Len(weeks) |->
                             earned_cum(df, weeks[i], report_date, budget, ev_data)],
         forecast_curve |-> [i \in 1..Len(weeks) |->
                               forecast_cum(df, weeks[i], report_date, forecasts, budget)],
         current_budget |-> current_budget,
         current_actual |-> current_actual,
         current_earned |-> current_earned,
         spi |-> IF RLess(Zero, current_budget)
                 THEN RDiv(current_earned, current_budget) ELSE RInt(1),
         cpi |-> IF RLess(Zero, current_actual)
                 THEN RDiv(current_earned, current_actual) ELSE RInt(1)]

\* the script run ended in the KeyError of calculate_earned_value: no series
SCurveRaised ==
    [raised |-> TRUE, weeks |-> <<>>, budget_curve |-> <<>>, actual_curve |-> <<>>,
     earned_curve |-> <<>>, forecast_curve |-> <<>>, current_budget |-> Zero,
     current_actual |-> Zero, current_earned |-> Zero, spi |-> Zero, cpi |-> Zero]

\* page_s_curves with timesheets loaded: line 533 calls calculate_earned_value
\* in the first pass of the loop, before any Earned or Forecast value
page_s_curves(df, setup, forecasts, ev_data) ==
    IF ev_data.raised THEN SCurveRaised ELSE SCurveSeries(df, setup, forecasts, ev_data)

\* page_s_curves as a handler: the call leaves its column in the session's table
ViewSCurves ==
    /\ timesheets # <<>>
    /\ LET ev_data == calculate_earned_value(deliverables) IN
       /\ ret' = [fn |-> "page_s_curves",
                  val |-> <<page_s_curves(timesheets, project_setup, weekly_forecasts, ev_data)>>]
       /\ deliverables' = ev_data.df
       /\ message' = IF ev_data.raised THEN "exception" ELSE "rendered"
    /\ UNCHANGED <<arg, project_setup, staff, rates, timesheets, weekly_forecasts>>

(***************************************************************************)
(* page_project_setup and page_manning.                                    *)
(***************************************************************************)
\* page_project_setup: every widget of the page writes its value back into the
\* project_setup dict on every render; `widgets' holds the values of the widgets
page_project_setup(widgets) ==
    /\ project_setup' = [project_setup EXCEPT
                           !.client = widgets.client,
                           !.project_name = widgets.project_name,
                           !.project_type = widgets.project_type,
                           !.report_by = widgets.report_by,
                           !.start_date = strftime(widgets.start_date),
                           !.end_date = strftime(widgets.end_date),
                           !.report_date = strftime(widgets.report_date),
                           !.currency = widgets.currency,
                           !.budget_management = widgets.budget_management,
                           !.budget_engineering = widgets.budget_engineering,
                           !.budget_drafting = widgets.budget_drafting,
                           !.contract_value = widgets.contract_value,
                           !.contingency_pct = widgets.contingency_pct]
    /\ message' = "rendered"
    /\ UNCHANGED <<staff, rates, deliverables, timesheets, weekly_forecasts>>

\* df['date'].min() of timesheets whose date column holds 'YYYY-MM-DD' strs, as
\* load_sample_data leaves it, and pd.to_datetime of it
MinDate(df) ==
    LET dates == { to_datetime(df[i].date) : i \in 1..Len(df) } IN
    CHOOSE t \in dates : \A u \in dates : t <= u

\* sorted(df['staff_name'].unique())
all_staff(df) == { df[i].staff_name : i \in 1..Len(df) }

\* row['Function']: the Function of the first staff row of that Name, and
\* 'ENGINEERING' for a person the staff table does not have
ManningFunction(person, staff_df) ==
    LET person_info == SelectSeq(staff_df, LAMBDA r : r.Name = person) IN
    IF person_info # <<>> THEN person_info[1].Function ELSE "ENGINEERING"

\* weeks = get_week_list(min_date, report_date, num_future_weeks=12)
ManningFutureWeeks == 12
ManningWeeks(df, setup) ==
    get_week_list(MinDate(df), to_datetime(setup.report_date), ManningFutureWeeks)

\* if week > report_date: the cell is a forecast cell, written back at line 974
ForecastWeekMut(week, report_date) == week >= report_date
ForecastWeek(week, report_date) == week > report_date

\* the (person, week_str) keys of the cells lines 967-974 go through: the rows
\* left by the function filter, the displayed weeks after the report date
ManningCells(df, setup, staff_df, show_weeks, filter_function) ==
    LET report_date == to_datetime(setup.report_date)
        weeks_to_show == SubSeq(ManningWeeks(df, setup), 1, show_weeks)
    IN  { <<person, strftime(week)>> :
            person \in { q \in all_staff(df) :
                           filter_function = "All"
                           \/ ManningFunction(q, staff_df) = filter_function },
            week \in { w \in Range(weeks_to_show) : ForecastWeek(w, report_date) } }

\* st.session_state.weekly_forecasts.get(forecast_key, 0.0)
ForecastGet(forecasts, key) == IF key \in DOMAIN forecasts THEN forecasts[key] ELSE Zero

\* page_manning with timesheets loaded: the grid shows the stored forecast of
\* each cell (0.0 when there is none), the user's edits `edited' replace some of
\* them (nan for a cell left blank), and every cell of the grid is written back
page_manning(show_weeks, filter_function, edited) ==
    /\ timesheets # <<>>
    /\ \E cells \in { ManningCells(timesheets, project_setup, staff, show_weeks, filter_function) } :
       \E shown \in { [key \in cells |->
                         IF key \in DOMAIN edited THEN edited[key]
                         ELSE ForecastGet(weekly_forecasts, key)] } :
          weekly_forecasts' =
              [key \in (DOMAIN weekly_forecasts) \cup cells |->
                 IF key \in cells
                 THEN (IF IsNaN(shown[key]) THEN Zero ELSE shown[key])
                 ELSE weekly_forecasts[key]]
    /\ message' = "rendered"
    /\ UNCHANGED <<project_setup, staff, rates, deliverables, timesheets>>

(***************************************************************************)
(* The tables and the uploads examined.                                    *)
(***************************************************************************)
Days == FirstDay..(FirstDay + MaxDays)

\* rate schedules a "Save Rates" may store
RateEdits ==
    { InitRates,
      <<>>,
      [InitRates EXCEPT ![3] = RateRow("Senior Engineer", 180)] }

\* staff tables a "Save Staff" may store
StaffEdits ==
    { InitStaff,
      <<>>,
      [InitStaff EXCEPT ![3] = StaffRow("Ben Robinson", "ENGINEERING", "ME", "Lead Engineer")] }

Garbage == <<"x">>

\* pd.read_csv types a column as a whole: a time column holds numbers (and
\* missing cells) or strs (and missing cells), never both
WellTyped(df) ==
    \/ \A i \in 1..Len(df) : df[i].time.kind \in {"str", "nan"}
    \/ \A i \in 1..Len(df) : df[i].time.kind \in {"num", "nan"}

UploadDates == { Oct2025(7), Garbage, NAStr }
UploadPeople == { <<"Ben Robinson", TaskPM>>, <<"Nobody", TaskDF>>, <<NA, NAStr>> }
UploadTimes == { StrCell(<<"1",":","3","0">>), StrCell(Garbage), NanCell, NumCell(Frac(-2, 1)) }
UploadRows ==
    { RawRow(d, "Job", p[1], p[2], t) : d \in UploadDates, p \in UploadPeople, t \in UploadTimes }
Uploads == { df \in SeqsUpTo(UploadRows, MaxBatch) : WellTyped(df) }

\* 'NAN' is not one of the strs pd.read_csv reads as a missing cell
SessionTimes == { StrCell(<<"1",":","3","0">>), StrCell(<<"N","A","N">>) }
SessionUploadRows ==
    { RawRow(d, "Job", n, TaskPM, t) :
        d \in { Oct2025(7), Garbage },
        n \in { "Ben Robinson", NA },
        t \in SessionTimes }
SessionUploads == SeqsUpTo(SessionUploadRows, MaxSessionBatch)

\* the days a session may be started on
Todays == { Ordinal(2025, 10, 28) }

(***************************************************************************)
(* Spec: a session and the handlers applied to it in any order.            *)
(***************************************************************************)
Init ==
    /\ arg = <<>>
    /\ ret = Pending
    /\ \E today \in Todays : SessionInit(InitProjectSetup(today))

LoadSample == LoadSampleData /\ UNCHANGED <<arg, ret>>
Import == (\E df \in SessionUploads : ImportData(df)) /\ UNCHANGED <<arg, ret>>
EditRates == (\E rates_df \in RateEdits : SaveRates(rates_df)) /\ UNCHANGED <<arg, ret>>
EditStaff == (\E staff_df \in StaffEdits : SaveStaff(staff_df)) /\ UNCHANGED <<arg, ret>>
ClearAll == ClearAllData /\ UNCHANGED <<arg, ret>>
Dashboard == ViewDashboard /\ UNCHANGED <<arg, ret>>

Next == LoadSample \/ Import \/ EditRates \/ EditStaff \/ ClearAll \/ Dashboard

Spec == Init /\ [][Next]_vars

(***************************************************************************)
(* SpecNormalize: one upload, normalised against the stored tables.        *)
(***************************************************************************)
InitNormalize ==
    /\ arg \in Uploads
    /\ ret = Pending
    /\ project_setup = FirstDaySetup
    /\ staff \in StaffEdits
    /\ rates \in RateEdits
    /\ deliverables = InitDeliverables
    /\ timesheets = <<>>
    /\ weekly_forecasts = <<>>
    /\ message = "none"

ProcessUpload ==
    /\ ImportData(arg)
    /\ UNCHANGED <<arg, ret>>

NextNormalize == ProcessUpload

SpecNormalize == InitNormalize /\ [][NextNormalize]_vars


(***************************************************************************)
(* The helpers on their own: each specification draws the arguments in its *)
(* initial state and calls the helper.                                     *)
(***************************************************************************)
Call(fn, value) == [fn |-> fn, val |-> <<value>>]

\* ---- SpecCalendar: calculate_week_ending and get_week_list
InitCalendar ==
    /\ arg \in [start_date : Days, end_date : Days, num_future_weeks : 0..MaxFutureWeeks]
    /\ ret = Pending
    /\ SessionInit(FirstDaySetup)

CallWeekEnding ==
    /\ ret' = Call("calculate_week_ending", calculate_week_ending(arg.start_date))
    /\ UNCHANGED <<arg, session>>

CallWeekList ==
    /\ ret' = Call("get_week_list",
                   get_week_list(arg.start_date, arg.end_date, arg.num_future_weeks))
    /\ UNCHANGED <<arg, session>>

NextCalendar == CallWeekEnding \/ CallWeekList

SpecCalendar == InitCalendar /\ [][NextCalendar]_vars

\* ---- SpecDuration: parse_time_to_hours
DurationAlphabet == {"1", "3", ":", "-", ".", "n", "a"}
DurationNumbers == { Frac(0, 1), Frac(7, 2), Frac(-2, 1), Frac(3, 1), NaNFloat }
\* longer strs: a clock time of the sample data, and four integer fields
DurationSamples ==
    { <<"0","8",":","2","4",":","0","0">>,
      <<"1",":","1",":","1",":","1">>,
      <<"1",":","3","0",":","1","3",":","1">> }
DurationInputs ==
    {NanCell}
    \cup {NumCell(x) : x \in DurationNumbers}
    \cup {StrCell(str) : str \in SeqsUpTo(DurationAlphabet, MaxStrLen)}
    \cup {StrCell(str) : str \in DurationSamples}

InitDuration ==
    /\ arg \in DurationInputs
    /\ ret = Pending
    /\ SessionInit(FirstDaySetup)

CallParseTime ==
    /\ ret' = Call("parse_time_to_hours", parse_time_to_hours(arg))
    /\ UNCHANGED <<arg, session>>

NextDuration == CallParseTime

SpecDuration == InitDuration /\ [][NextDuration]_vars

\* ---- SpecClassify: map_function
LabelFragments ==
    { <<"P","M">>,
      <<"p","m">>,
      <<"M","A","N","A","G","E","M","E","N","T">>,
      <<"M","a","n","a","g","e">>,
      <<"m","e","n","t">>,
      <<"D","F">>,
      <<"D","r","a","f","t">>,
      <<"3","d">>,
      <<"P">>,
      <<"M">>,
      <<"D">>,
      <<"F">>,
      <<"3">>,
      <<"E","N">>,
      <<" ","-"," ">> }

RECURSIVE Concat(_)
Concat(ss) == IF ss = <<>> THEN <<>> ELSE Head(ss) \o Concat(Tail(ss))

TaskLabels == {NAStr} \cup {Concat(ss) : ss \in SeqsUpTo(LabelFragments, MaxFragments)}

InitClassify ==
    /\ arg \in TaskLabels
    /\ ret = Pending
    /\ SessionInit(FirstDaySetup)

CallMapFunction ==
    /\ ret' = Call("map_function", map_function(arg))
    /\ UNCHANGED <<arg, session>>

NextClassify == CallMapFunction

SpecClassify == InitClassify /\ [][NextClassify]_vars

\* ---- SpecRate: get_staff_rate (and lookup_rate_by_position under it)
LookupNames == {"Ben Robinson", "Will Smith", NA}
LookupPositions == {"Senior Engineer", "Lead Engineer"}
LookupStaffRows ==
    { StaffRow(n, "ENGINEERING", "ME", p) :
        n \in {"Ben Robinson", "Will Smith"}, p \in LookupPositions \cup {NA} }
LookupRateRows == { RateRow(p, r) : p \in LookupPositions, r \in {170, 195} }

InitRate ==
    /\ arg \in [staff_name : LookupNames,
                staff_df : SeqsUpTo(LookupStaffRows, MaxTableRows),
                rates_df : SeqsUpTo(LookupRateRows, MaxTableRows)]
    /\ ret = Pending
    /\ SessionInit(FirstDaySetup)

CallStaffRate ==
    /\ ret' = Call("get_staff_rate", get_staff_rate(arg.staff_name, arg.staff_df, arg.rates_df))
    /\ UNCHANGED <<arg, session>>

NextRate == CallStaffRate

SpecRate == InitRate /\ [][NextRate]_vars

\* ---- SpecEarned: calculate_earned_value on a deliverables DataFrame.  The
\* function column is labelled 'Function', as the application's table labels it,
\* or 'function'.
FunctionLabels == {"Function", "function"}

EarnedRow(label, function, budget_hours, completion) ==
    ("Deliverable" :> "Deliverable") @@ (label :> function) @@ ("Discipline" :> "GN")
    @@ ("budget_hours" :> budget_hours) @@ ("completion" :> completion)
    @@ ("status" :> "Started")

EarnedTables ==
    UNION { { [cols |-> {"Deliverable", label, "Discipline", "budget_hours", "completion", "status"},
               rows |-> rows] :
              rows \in SeqsUpTo({ EarnedRow(label, f, b, c) :
                                    f \in Range(Functions), b \in {20, 40}, c \in {0, 50, 100} },
                                MaxDeliverables) } :
            label \in FunctionLabels }

InitEarned ==
    /\ arg \in EarnedTables
    /\ ret = Pending
    /\ SessionInit(FirstDaySetup)

\* the DataFrame handed over is the caller's own object: what the call does to
\* it, the caller sees
CallEarnedValue ==
    LET ev_data == calculate_earned_value(arg) IN
    /\ ret' = Call("calculate_earned_value", ev_data)
    /\ arg' = ev_data.df
    /\ UNCHANGED session

NextEarned == CallEarnedValue

SpecEarned == InitEarned /\ [][NextEarned]_vars


(***************************************************************************)
(* The claims.                                                             *)
(***************************************************************************)
Saturday == 5

\* C1: for every date d, calculate_week_ending(d) is a Saturday strictly later
\* than d and at most 7 days later: d + 7 when d is a Saturday, otherwise the
\* first Saturday after d (2025-10-11 gives 2025-10-18, 2025-10-07 gives
\* 2025-10-11).
C1_WeekEndingIsNextSaturday ==
    ret.fn = "calculate_week_ending" =>
        LET d == arg.start_date
            w == ret.val[1]
        IN  /\ Weekday(w) = Saturday
            /\ d < w /\ w <= d + 7
            /\ Weekday(d) = Saturday => w = d + 7
            /\ Weekday(d) # Saturday => \A x \in (d + 1)..(w - 1) : Weekday(x) # Saturday
            /\ d = Ordinal(2025, 10, 11) => w = Ordinal(2025, 10, 18)
            /\ d = Ordinal(2025, 10, 7) => w = Ordinal(2025, 10, 11)

\* C1 witness: the call was made on a Saturday and returned the Saturday after
C1_Witness ==
    /\ ret.fn = "calculate_week_ending"
    /\ Weekday(arg.start_date) = Saturday
    /\ ret.val[1] = arg.start_date + 7

\* C2: get_week_list(start, end, n) is strictly increasing in steps of exactly
\* 7 days; when start <= end it begins at the week ending of start, holds every
\* 7-day step up to and including the week ending of end, and ends with exactly
\* n further weeks, all later than the week ending of end.
C2_WeekSeries ==
    ret.fn = "get_week_list" =>
        LET weeks == ret.val[1]
            first == calculate_week_ending(arg.start_date)
            last == calculate_week_ending(arg.end_date)
            k == (last - first) \div 7 + 1
        IN  /\ \A i \in 1..(Len(weeks) - 1) : weeks[i + 1] = weeks[i] + 7
            /\ \A i, j \in 1..Len(weeks) : i < j => weeks[i] < weeks[j]
            /\ arg.start_date <= arg.end_date =>
                 /\ Len(weeks) = k + arg.num_future_weeks
                 /\ weeks[1] = first
                 /\ weeks[k] = last
                 /\ \A i \in 1..k : weeks[i] = first + 7 * (i - 1)
                 /\ \A i \in (k + 1)..Len(weeks) : weeks[i] > last

\* C2 witness: a series over several weeks followed by future weeks
C2_Witness ==
    /\ ret.fn = "get_week_list"
    /\ arg.start_date < arg.end_date
    /\ calculate_week_ending(arg.start_date) < calculate_week_ending(arg.end_date)
    /\ arg.num_future_weeks >= 2
    /\ Len(ret.val[1]) >= 4

AllIntOk(parts) == \A i \in 1..Len(parts) : IntOk(parts[i])

\* H + MM/60 + SS/3600
ClockHours(h, m, sec) == RAdd(RAdd(RInt(h), Frac(m, 60)), Frac(sec, 3600))

\* C3: parse_time_to_hours returns a numeric input unchanged, H + MM/60 +
\* SS/3600 for a str 'H:MM:SS' and H + MM/60 for a str 'H:MM', for all integer
\* fields; '08:24:00' is 8.4 hours, which is 30240 seconds.
C3_ParseDurationValue ==
    /\ ret.fn = "parse_time_to_hours" =>
        LET hours == ret.val[1]
            parts == Split(arg.str, ":")
        IN  /\ arg.kind = "num" /\ ~IsNaN(arg.num) => hours = arg.num
            /\ arg.kind = "str" /\ Len(parts) = 3 /\ AllIntOk(parts) =>
                 REq(hours, ClockHours(IntVal(parts[1]), IntVal(parts[2]), IntVal(parts[3])))
            /\ arg.kind = "str" /\ Len(parts) = 2 /\ AllIntOk(parts) =>
                 REq(hours, ClockHours(IntVal(parts[1]), IntVal(parts[2]), 0))
    /\ LET hours == parse_time_to_hours(StrCell(<<"0","8",":","2","4",":","0","0">>)) IN
       /\ REq(hours, Frac(84, 10))
       /\ REq(RMul(hours, RInt(3600)), RInt(30240))

\* C3 witness: an 'H:MM:SS' str with seconds was parsed to a non-zero value
C3_Witness ==
    /\ ret.fn = "parse_time_to_hours"
    /\ arg.kind = "str"
    /\ LET parts == Split(arg.str, ":") IN
       Len(parts) = 3 /\ AllIntOk(parts) /\ IntVal(parts[3]) > 0 /\ IntVal(parts[2]) > 0
    /\ ret.val[1].n > 0

\* the str is a number, an 'H:MM' or an 'H:MM:SS' with integer fields
IsDurationStr(str) ==
    LET parts == Split(str, ":") IN
    \/ Len(parts) = 1 /\ FloatOk(str)
    \/ Len(parts) \in {2, 3} /\ AllIntOk(parts)

\* C4: parse_time_to_hours never raises, and returns 0.0 for every input that
\* is empty, missing, or a str that is neither a number nor an 'H:MM' nor an
\* 'H:MM:SS' with integer fields (more than three ':'-separated parts included).
C4_ParseDurationFailSoft ==
    ret.fn = "parse_time_to_hours" =>
        /\ ret.val[1] \in [n : Int, d : Nat]
        /\ \/ arg.kind = "nan"
           \/ arg.kind = "num" /\ IsNaN(arg.num)
           \/ arg.kind = "str" /\ ~IsDurationStr(arg.str)
           => ret.val[1] = Zero

\* C4 witness: a str of more than three integer parts was turned into 0.0
C4_Witness ==
    /\ ret.fn = "parse_time_to_hours"
    /\ arg.kind = "str"
    /\ Len(Split(arg.str, ":")) > 3 /\ AllIntOk(Split(arg.str, ":"))
    /\ ret.val[1] = Zero

\* a further case of C4: an 'H:MM' whose hours field is a decimal fraction
C4_NonIntegerField ==
    /\ ret.fn = "parse_time_to_hours"
    /\ arg.kind = "str"
    /\ LET parts == Split(arg.str, ":") IN
       Len(parts) = 2 /\ FloatOk(parts[1]) /\ ~IntOk(parts[1]) /\ IntOk(parts[2])
    /\ ret.val[1] = Zero


Min(S) == CHOOSE x \in S : \A y \in S : x <= y

\* C5: map_function is total and returns exactly one of MANAGEMENT,
\* ENGINEERING, DRAFTING by fixed priority: MANAGEMENT if the uppercased label
\* contains 'PM' or 'MANAGEMENT'; otherwise DRAFTING if it contains 'DF',
\* 'DRAFT' or '3D'; otherwise ENGINEERING, also for a missing label.  A label
\* matching a management and a drafting keyword is MANAGEMENT.
C5_ClassifyPriority ==
    ret.fn = "map_function" =>
        LET present == arg # NAStr
            upper == Upper(arg)
            management == present /\ (\/ Contains(upper, <<"P","M">>)
                                      \/ Contains(upper, <<"M","A","N","A","G","E","M","E","N","T">>))
            drafting == present /\ (\/ Contains(upper, <<"D","F">>)
                                    \/ Contains(upper, <<"D","R","A","F","T">>)
                                    \/ Contains(upper, <<"3","D">>))
        IN  /\ ret.val[1] \in {"MANAGEMENT", "ENGINEERING", "DRAFTING"}
            /\ management => ret.val[1] = "MANAGEMENT"
            /\ ~management /\ drafting => ret.val[1] = "DRAFTING"
            /\ ~management /\ ~drafting => ret.val[1] = "ENGINEERING"

\* C5 witness: a label with a management and a drafting keyword came out MANAGEMENT
C5_Witness ==
    /\ ret.fn = "map_function"
    /\ arg # NAStr
    /\ Contains(Upper(arg), <<"P","M">>)
    /\ Contains(Upper(arg), <<"D","F">>)
    /\ ret.val[1] = "MANAGEMENT"

\* C6: get_staff_rate(name, staff, rates) returns the rate of the first rate
\* row whose position equals the position of the first staff row whose name
\* equals name, and the fallback 170.0 whenever the staff table is empty, the
\* name is unmatched, the position is null, the rate table is empty or no rate
\* row matches the position.
C6_RateForStaff ==
    ret.fn = "get_staff_rate" =>
        LET named == {i \in 1..Len(arg.staff_df) :
                        arg.staff_name # NA /\ arg.staff_df[i].Name = arg.staff_name}
            position == arg.staff_df[Min(named)].Position
            priced == {j \in 1..Len(arg.rates_df) : arg.rates_df[j].Position = position}
        IN  IF named = {} \/ position = NA \/ priced = {}
            THEN ret.val[1] = 170
            ELSE ret.val[1] = arg.rates_df[Min(priced)].Rate

\* C6 witness: two staff rows carry the name and two rate rows the position,
\* with different rates, and the call returned the first rate row's rate
C6_Witness ==
    /\ ret.fn = "get_staff_rate"
    /\ Len(arg.staff_df) = 2 /\ Len(arg.rates_df) = 2
    /\ arg.staff_df[1].Name = arg.staff_name /\ arg.staff_df[2].Name = arg.staff_name
    /\ arg.staff_df[1].Position # arg.staff_df[2].Position
    /\ arg.rates_df[1].Position = arg.staff_df[1].Position
    /\ arg.rates_df[2].Position = arg.staff_df[1].Position
    /\ arg.rates_df[1].Rate = 195 /\ arg.rates_df[2].Rate = 170
    /\ ret.val[1] = 195

\* C7: an import stores exactly one normalized entry per raw row, in the order
\* of the rows; a malformed or missing duration, date, task or staff never
\* fails the batch nor drops a row.
C7_ImportKeepsEveryRow ==
    message # "none" =>
        /\ message = "success"
        /\ Len(timesheets) = Len(arg)
        /\ \A i \in 1..Len(arg) :
             /\ timesheets[i].staff_name = arg[i].staff_name
             /\ timesheets[i].task_name = arg[i].task_name
             /\ timesheets[i].time = arg[i].time
             /\ timesheets[i].job_name = arg[i].job_name

\* C8: every normalized timesheet entry has hours >= 0, whatever its raw
\* duration was.
C8_HoursNonNegative ==
    \A i \in 1..Len(timesheets) : RNonNeg(timesheets[i].hours)

\* C9: in every session state every stored timesheet entry has
\* cost == hours * rate for the rate stored on the entry, whatever rate and
\* staff saves, sample loads and imports came before or after.
C9_CostIsHoursTimesRate ==
    \A i \in 1..Len(timesheets) :
        REq(timesheets[i].cost, RMul(timesheets[i].hours, RInt(timesheets[i].rate)))

\* what C9 says, of the entries whose hours are a number
C9_OnNumericHours ==
    \A i \in 1..Len(timesheets) :
        ~IsNaN(timesheets[i].hours) =>
            REq(timesheets[i].cost, RMul(timesheets[i].hours, RInt(timesheets[i].rate)))

\* an entry with hours whose stored rate is no longer the rate the tables give
\* its staff member
C9_StaleRateReached ==
    \E i \in 1..Len(timesheets) :
        /\ timesheets[i].hours.n > 0
        /\ timesheets[i].rate # get_staff_rate(timesheets[i].staff_name, staff, rates)
        /\ timesheets[i].rate # FallbackRate

\* the function a deliverables row is labelled with, under either label
FunctionOfRow(row) == IF "function" \in DOMAIN row THEN row["function"] ELSE row["Function"]

RECURSIVE EarnedHoursSum(_, _)
\* the sum of budget_hours * completion / 100 over the rows of the functions fs
EarnedHoursSum(rows, fs) ==
    IF rows = <<>> THEN Zero
    ELSE LET rest == EarnedHoursSum(Tail(rows), fs) IN
         IF FunctionOfRow(Head(rows)) \in fs
         THEN RAdd(Frac(Head(rows)["budget_hours"] * Head(rows)["completion"], 100), rest)
         ELSE rest

EarnedValueAsClaimed(ev_data, rows) ==
    /\ ~ev_data.raised
    /\ REq(ev_data.earned_hours, EarnedHoursSum(rows, Range(Functions)))
    /\ REq(ev_data.earned_cost,
           RAdd(RAdd(RMul(EarnedHoursSum(rows, {"MANAGEMENT"}), RInt(245)),
                     RMul(EarnedHoursSum(rows, {"ENGINEERING"}), RInt(180))),
                RMul(EarnedHoursSum(rows, {"DRAFTING"}), RInt(170))))
    /\ rows = <<>> => ev_data.earned_hours = Zero /\ ev_data.earned_cost = Zero

\* C10: calculate_earned_value returns earned hours = the sum over all
\* deliverables of budget_hours * completion / 100 and earned cost = the sum
\* over the three functions of that function's earned hours times its standard
\* rate (245, 180, 170); an empty list gives 0 and 0.
C10_EarnedValue ==
    ret.fn = "calculate_earned_value" => EarnedValueAsClaimed(ret.val[1], arg.rows)

\* what C10 says, of the tables that label the function column 'function'
C10_OnLowerCaseLabel ==
    ret.fn = "calculate_earned_value" /\ "function" \in arg.cols
        => EarnedValueAsClaimed(ret.val[1], arg.rows)

C10_LowerCaseReached ==
    /\ ret.fn = "calculate_earned_value" /\ "function" \in arg.cols
    /\ Len(arg.rows) = 2
    /\ FunctionOfRow(arg.rows[1]) # FunctionOfRow(arg.rows[2])
    /\ ret.val[1].earned_cost.n > 0


(***************************************************************************)
(* SpecPerformance: calculate_performance_factor on budgets and actuals.   *)
(***************************************************************************)
MaxAmount == 5

\* n and n / 2 for the whole numbers up to MaxAmount, of either sign
Amounts == { Frac(n, d) : n \in (-MaxAmount)..MaxAmount, d \in {1, 2} }

InitPerformance ==
    /\ arg \in [budget : Amounts, actual : Amounts \cup {NaNFloat}]
    /\ ret = Pending
    /\ SessionInit(FirstDaySetup)

CallPerformanceFactor ==
    /\ ret' = Call("calculate_performance_factor",
                   calculate_performance_factor(arg.budget, arg.actual))
    /\ UNCHANGED <<arg, session>>

NextPerformance == CallPerformanceFactor

SpecPerformance == InitPerformance /\ [][NextPerformance]_vars

\* C18: calculate_performance_factor returns budget / actual when actual > 0
\* and 1.0 for every actual <= 0, whatever the budget, and never divides by
\* zero.
C18_PerformanceFactor ==
    ret.fn = "calculate_performance_factor" =>
        LET pf == ret.val[1] IN
        /\ ~pf.raised
        /\ arg.actual.d > 0 /\ arg.actual.n > 0 =>
             REq(RMul(pf.val, arg.actual), arg.budget)
        /\ arg.actual.d > 0 /\ arg.actual.n <= 0 => pf.val = RInt(1)

\* C18 witness: with no actual hours and a budget, the factor came out 1.0
C18_Witness ==
    /\ ret.fn = "calculate_performance_factor"
    /\ arg.actual.n = 0 /\ arg.actual.d > 0
    /\ arg.budget.n > 0
    /\ ret.val[1] = Returned(RInt(1))

\* a further case of C18: a budget over a smaller actual gives a factor above 1
C18_QuotientReached ==
    /\ ret.fn = "calculate_performance_factor"
    /\ RLess(Zero, arg.actual) /\ RLess(arg.actual, arg.budget)
    /\ RLess(RInt(1), ret.val[1].val)


(***************************************************************************)
(* SpecSCurve: the S-Curves page opened on a session with timesheets, a    *)
(* project setup and forecasts as the other pages leave them.              *)
(***************************************************************************)
MaxCurveRows == 2

\* imported rows of the weeks ending 11, 18 and 25 October 2025
CurveTimes == { StrCell(<<"1",":","3","0">>), StrCell(<<"-","2">>), StrCell(<<"N","A","N">>) }
CurveRows ==
    { RawRow(Oct2025(day), "Job", "Ben Robinson", TaskEN, t) :
        day \in {7, 14, 21}, t \in CurveTimes }
CurveTimesheets ==
    { NormalizeImport(df, InitStaff, InitRates) :
        df \in SeqsUpTo(CurveRows, MaxCurveRows) \ {<<>>} }

\* page_project_setup: the dates and the budget hours of the three functions
CurveBudgets == { <<50, 200, 100>>, <<0, 0, 0>> }
CurveSetups ==
    { [FirstDaySetup EXCEPT !.start_date = Oct2025(6),
                            !.end_date = Oct2025(end),
                            !.report_date = Oct2025(report),
                            !.budget_management = b[1],
                            !.budget_engineering = b[2],
                            !.budget_drafting = b[3]] :
        end \in {3, 22, 25}, report \in {1, 15, 18}, b \in CurveBudgets }

\* page_manning: forecasts of one person for the weeks ending 18 October and
\* 1 November 2025
ForecastKey(person, y, m, d) == <<person, strftime(Ordinal(y, m, d))>>
CurveForecasts ==
    { <<>>,
      ForecastKey("Ben Robinson", 2025, 10, 18) :> RInt(8),
      ForecastKey("Ben Robinson", 2025, 11, 1) :> RInt(8),
      (ForecastKey("Ben Robinson", 2025, 10, 18) :> RInt(8))
          @@ (ForecastKey("Ben Robinson", 2025, 11, 1) :> RInt(8)) }

InitSCurve ==
    /\ arg = <<>>
    /\ ret = Pending
    /\ project_setup \in CurveSetups
    /\ staff = InitStaff
    /\ rates = InitRates
    /\ deliverables = InitDeliverables
    /\ timesheets \in CurveTimesheets
    /\ weekly_forecasts \in CurveForecasts
    /\ message = "none"

NextSCurve == ViewSCurves

SpecSCurve == InitSCurve /\ [][NextSCurve]_vars

\* ---- the claims about the series of the S-Curves page
RECURSIVE SumOver(_, _)
\* the sum of f over the set S
SumOver(S, f) ==
    IF S = {} THEN Zero
    ELSE LET x == CHOOSE y \in S : TRUE IN RAdd(f[x], SumOver(S \ {x}, f))

\* the page has been opened and has put up its series
SCurveShown == ret.fn = "page_s_curves" /\ ~ret.val[1].raised /\ ret.val[1].weeks # <<>>

\* the series the loop computes in this session from the sums
\* calculate_earned_value is to return for the stored deliverables
SeriesIfReturned ==
    SCurveSeries(timesheets, project_setup, weekly_forecasts,
                 [raised |-> FALSE,
                  earned_hours |-> EarnedHoursSum(deliverables.rows, Range(Functions)),
                  earned_cost |-> Zero,
                  df |-> deliverables])

EndDate == to_datetime(project_setup.end_date)
\* the weeks of the series of this session
SeriesWeeks ==
    get_week_list(to_datetime(project_setup.start_date), to_datetime(project_setup.end_date),
                  SCurveFutureWeeks)
ReportDate == to_datetime(project_setup.report_date)
TotalBudgetHours ==
    project_setup.budget_management + project_setup.budget_engineering
        + project_setup.budget_drafting
\* the weeks of the series up to the week w that are no later than the end date
PlannedWeeks(weeks, w) == {j \in 1..Len(weeks) : weeks[j] <= w /\ weeks[j] <= EndDate}
\* the hours of the normalized entries of the week buckets up to w
ActualHoursUpTo(w) ==
    SumOver({k \in 1..Len(timesheets) : timesheets[k].week_ending <= w},
            [k \in 1..Len(timesheets) |-> timesheets[k].hours])
\* the sum of the parsed durations of all timesheet rows
TotalActualHours ==
    SumOver(1..Len(timesheets),
            [k \in 1..Len(timesheets) |-> parse_time_to_hours(timesheets[k].time)])
AllHoursNumbers == \A k \in 1..Len(timesheets) : ~IsNaN(timesheets[k].hours)

BudgetAsClaimed(r) ==
    \A i \in 1..Len(r.weeks) :
        IF r.weeks[i] <= EndDate
        THEN REq(r.budget_curve[i],
                 Frac(Cardinality(PlannedWeeks(r.weeks, r.weeks[i])) * TotalBudgetHours,
                      Cardinality(PlannedWeeks(r.weeks, EndDate))))
        ELSE REq(r.budget_curve[i], RInt(TotalBudgetHours))

\* C11: for every week w of the series the Budget value is (number of series
\* weeks <= w that are also <= end_date) / totalWeeks * totalBudgetHours when
\* w <= end_date, and totalBudgetHours when w > end_date.
C11_BudgetSeries ==
    ret.fn = "page_s_curves" => SCurveShown /\ BudgetAsClaimed(ret.val[1])

\* what C11 says, of the series the loop computes once earned value is returned
C11_IfEarnedValueReturned == BudgetAsClaimed(SeriesIfReturned)

C11_PlannedAndFlatReached ==
    LET r == SeriesIfReturned IN
    /\ TotalBudgetHours > 0
    /\ \E i \in 1..Len(r.weeks) : r.weeks[i] <= EndDate /\ i > 1
    /\ \E i \in 1..Len(r.weeks) : r.weeks[i] > EndDate

ZeroBudgetAsClaimed(r) ==
    PlannedWeeks(r.weeks, EndDate) = {} =>
        \A i \in 1..Len(r.weeks) : REq(r.budget_curve[i], Zero)

\* C12: when no week of the series is <= end_date (totalWeeks = 0) the Budget
\* value is 0 for every week of the series.
C12_ZeroBudgetWithoutWeeks ==
    ret.fn = "page_s_curves" /\ PlannedWeeks(SeriesWeeks, EndDate) = {}
        => SCurveShown /\ ZeroBudgetAsClaimed(ret.val[1])

\* the loop itself gives the whole budget, not 0, to every week when
\* totalWeeks = 0: the 'else 0' of line 520 is under 'if week <= end_date'
C12_LoopGivesWholeBudget ==
    LET r == SeriesIfReturned IN
    PlannedWeeks(r.weeks, EndDate) = {} =>
        \A i \in 1..Len(r.weeks) : REq(r.budget_curve[i], RInt(TotalBudgetHours))

C12_WholeBudgetReached ==
    LET r == SeriesIfReturned IN
    /\ PlannedWeeks(r.weeks, EndDate) = {}
    /\ TotalBudgetHours > 0
    /\ r.budget_curve[1] = RInt(TotalBudgetHours)

ActualAsClaimed(r) ==
    /\ \A i \in 1..Len(r.weeks) :
         IF r.weeks[i] <= ReportDate
         THEN REq(r.actual_curve[i], ActualHoursUpTo(r.weeks[i]))
         ELSE REq(r.actual_curve[i], TotalActualHours)

\* C13: for every week w of the series the Actual value is the sum of the
\* hours of the normalized entries whose week bucket is <= w when
\* w <= reportDate, and for w > reportDate the total actual hours, the sum of
\* the parsed durations of all timesheet rows.
C13_ActualSeries ==
    ret.fn = "page_s_curves" => SCurveShown /\ ActualAsClaimed(ret.val[1])

\* what C13 says, of the series the loop computes once earned value is
\* returned, for timesheets whose hours are all numbers
C13_IfEarnedValueReturned == AllHoursNumbers => ActualAsClaimed(SeriesIfReturned)

C13_PartialActualReached ==
    LET r == SeriesIfReturned IN
    /\ AllHoursNumbers
    /\ \E i \in 1..Len(r.weeks) :
         /\ r.weeks[i] <= ReportDate
         /\ RLess(Zero, r.actual_curve[i])
         /\ RLess(r.actual_curve[i], r.actual_curve[Len(r.weeks)])

TotalEarnedHours == EarnedHoursSum(deliverables.rows, Range(Functions))

EarnedAsClaimed(r) ==
    TotalBudgetHours > 0 =>
        /\ \A i \in 1..Len(r.weeks) :
             IF r.weeks[i] <= ReportDate
             THEN LET share == Frac(TotalActualHours.n, TotalActualHours.d * TotalBudgetHours) IN
                  REq(r.earned_curve[i],
                      RMul(TotalEarnedHours, IF RLess(RInt(1), share) THEN RInt(1) ELSE share))
             ELSE REq(r.earned_curve[i], TotalEarnedHours)
        /\ \A i, j \in 1..Len(r.weeks) :
             r.weeks[i] <= ReportDate /\ r.weeks[j] > ReportDate
                 => RLe(r.earned_curve[i], r.earned_curve[j])

\* C14: with totalBudgetHours > 0 the Earned value of a week w is
\* totalEarnedHours * min(totalActualHoursToDate / totalBudgetHours, 1.0) when
\* w <= reportDate and totalEarnedHours when w > reportDate, so no week up to
\* the report date has a larger Earned value than a week after it.
C14_EarnedSeries ==
    ret.fn = "page_s_curves" => SCurveShown /\ EarnedAsClaimed(ret.val[1])

\* what C14 says, of the series the loop computes once earned value is
\* returned, for timesheets whose hours are all numbers
C14_IfEarnedValueReturned == AllHoursNumbers => EarnedAsClaimed(SeriesIfReturned)

C14_ScaledEarnedReached ==
    LET r == SeriesIfReturned IN
    /\ AllHoursNumbers /\ TotalBudgetHours > 0
    /\ \E i, j \in 1..Len(r.weeks) :
         /\ r.weeks[i] <= ReportDate /\ r.weeks[j] > ReportDate
         /\ RLess(Zero, r.earned_curve[i])
         /\ RLess(r.earned_curve[i], r.earned_curve[j])

\* the forecast-map hours of all (person, week) entries with week <= w
ForecastHoursUpTo(w) ==
    SumOver({key \in DOMAIN weekly_forecasts : to_datetime(key[2]) <= w}, weekly_forecasts)

Capped(x) ==
    IF RLess(Frac(12 * TotalBudgetHours, 10), x) THEN Frac(12 * TotalBudgetHours, 10) ELSE x

ForecastAsClaimed(r) ==
    \A i \in 1..Len(r.weeks) :
        /\ IF r.weeks[i] <= ReportDate
           THEN REq(r.forecast_curve[i], Capped(r.actual_curve[i]))
           ELSE REq(r.forecast_curve[i],
                    Capped(RAdd(TotalActualHours, ForecastHoursUpTo(r.weeks[i]))))
        /\ RLe(r.forecast_curve[i], Frac(12 * TotalBudgetHours, 10))

\* C15: the Forecast value of a week w is min(1.2 * totalBudgetHours, actual(w))
\* when w <= reportDate and min(1.2 * totalBudgetHours, totalActualHoursToDate +
\* the forecast-map hours of all entries with week <= w) when w > reportDate,
\* so it never exceeds 1.2 * totalBudgetHours.
C15_ForecastSeries ==
    ret.fn = "page_s_curves" => SCurveShown /\ ForecastAsClaimed(ret.val[1])

\* what C15 says, of the series the loop computes once earned value is
\* returned, for timesheets whose hours are all numbers
C15_IfEarnedValueReturned == AllHoursNumbers => ForecastAsClaimed(SeriesIfReturned)

C15_ForecastAddedReached ==
    LET r == SeriesIfReturned IN
    /\ AllHoursNumbers
    /\ \E i \in 1..Len(r.weeks) :
         /\ r.weeks[i] > ReportDate
         /\ RLess(TotalActualHours, r.forecast_curve[i])
         /\ RLess(r.forecast_curve[i], Frac(12 * TotalBudgetHours, 10))

C15_CapReached ==
    LET r == SeriesIfReturned IN
    /\ AllHoursNumbers
    /\ \E i \in 1..Len(r.weeks) :
         /\ RLess(r.forecast_curve[i], r.actual_curve[i])
         /\ REq(r.forecast_curve[i], Frac(12 * TotalBudgetHours, 10))

NonDecreasing(curve) ==
    \A i, j \in 1..Len(curve) : i <= j => RLe(curve[i], curve[j])

\* C16: for a fixed set of normalized entries, budgets and dates, the
\* cumulative Actual series and the cumulative Budget series are both
\* non-decreasing across the weeks.
C16_SeriesNonDecreasing ==
    ret.fn = "page_s_curves" =>
        /\ SCurveShown
        /\ NonDecreasing(ret.val[1].actual_curve)
        /\ NonDecreasing(ret.val[1].budget_curve)

\* the Budget series the loop computes never decreases, and neither does the
\* Actual series when no entry has negative hours
C16_IfHoursNonNegative ==
    /\ NonDecreasing(SeriesIfReturned.budget_curve)
    /\ (\A k \in 1..Len(timesheets) : timesheets[k].hours.n >= 0)
         => NonDecreasing(SeriesIfReturned.actual_curve)

\* with an entry of negative hours the Actual series the loop computes drops
C16_ActualDropReached ==
    LET r == SeriesIfReturned IN
    \E i \in 1..(Len(r.weeks) - 1) :
        /\ r.weeks[i + 1] <= ReportDate
        /\ RLess(r.actual_curve[i + 1], r.actual_curve[i])

IndicesAsClaimed(r) ==
    /\ IF r.current_budget.n = 0
       THEN REq(r.spi, RInt(1))
       ELSE REq(RMul(r.spi, r.current_budget), r.current_earned)
    /\ IF r.current_actual.n = 0
       THEN REq(r.cpi, RInt(1))
       ELSE REq(RMul(r.cpi, r.current_actual), r.current_earned)

\* C17: SPI and CPI are always computed, without a division by zero: SPI is
\* the earned over the budget figure at the report date, and 1.0 when that
\* budget is 0; CPI is the earned over the actual figure, and 1.0 when the
\* actual is 0.
C17_PerformanceIndices ==
    ret.fn = "page_s_curves" => SCurveShown /\ IndicesAsClaimed(ret.val[1])

\* what C17 says, of the figures the page computes once earned value is
\* returned, for timesheets without negative hours
C17_IfEarnedValueReturned ==
    (\A k \in 1..Len(timesheets) : timesheets[k].hours.n >= 0)
        => IndicesAsClaimed(SeriesIfReturned)

C17_QuotientsReached ==
    LET r == SeriesIfReturned IN
    /\ r.current_budget.n > 0 /\ r.current_actual.n > 0
    /\ ~REq(r.spi, RInt(1)) /\ ~REq(r.cpi, RInt(1))

C17_ZeroBudgetReached ==
    LET r == SeriesIfReturned IN
    /\ r.current_budget.n = 0 /\ r.current_actual.n = 0
    /\ r.spi = RInt(1) /\ r.cpi = RInt(1)

\* ---- C19 ----
\* C19: calculate_earned_value does not change the collection it is handed:
\* after the call the caller's deliverables table has exactly the fields and
\* the values it had before the call.
C19_CallerTableUnchanged ==
    [][CallEarnedValue /\ ~ret'.val[1].raised => arg' = arg]_vars

\* the call returned a dict and the table it was handed carries a column the
\* caller never gave it
C19_ColumnAddedReached ==
    /\ ret.fn = "calculate_earned_value"
    /\ ~ret.val[1].raised
    /\ "function" \in arg.cols
    /\ "earned_hours" \in arg.cols
    /\ arg.rows # <<>>

\* the columns of every table the calls of SpecEarned start from
C19_StartsWithoutEarnedHours ==
    ret = Pending => "earned_hours" \notin arg.cols

\* the only table a call leaves as it found it is the empty one, or one that
\* an earlier call has already been at
C19_OnlyEmptyTableKept ==
    [][CallEarnedValue /\ arg' = arg => arg.rows = <<>> \/ "earned_hours" \in arg.cols]_vars

\* ---- SpecForecast: a session in which sample data is loaded, the report date
\* is changed on the Project Setup page, the Manning View is rendered and
\* edited, and the S-Curves page is opened, in any order.
ForecastReportDates ==
    { Ordinal(2025, 10, 21), Ordinal(2025, 10, 28), Ordinal(2025, 11, 4), Ordinal(2025, 11, 11) }

\* the widgets of the Project Setup page, left as they come up but for the
\* report date
SetupWidgets(report_date) ==
    [client |-> project_setup.client,
     project_name |-> project_setup.project_name,
     project_type |-> project_setup.project_type,
     report_by |-> project_setup.report_by,
     start_date |-> to_datetime(project_setup.start_date),
     end_date |-> to_datetime(project_setup.end_date),
     report_date |-> report_date,
     currency |-> project_setup.currency,
     budget_management |-> project_setup.budget_management,
     budget_engineering |-> project_setup.budget_engineering,
     budget_drafting |-> project_setup.budget_drafting,
     contract_value |-> project_setup.contract_value,
     contingency_pct |-> project_setup.contingency_pct]

\* the slider's values tried, of its range 4..len(weeks), and the filters
ManningShown == {4, 5}
ManningFilters == {"All", "ENGINEERING"}
EditedPerson == "Ben Robinson"

\* the grid left as it came up, or one cell of one person's row given 8 hours
\* or blanked
ManningEdits(cells) ==
    { <<>> } \cup { key :> hrs : key \in { k \in cells : k[1] = EditedPerson },
                                 hrs \in { RInt(8), NaNFloat } }

InitForecast ==
    /\ arg = <<>>
    /\ ret = Pending
    /\ SessionInit(InitProjectSetup(Ordinal(2025, 10, 28)))

SetReportDate ==
    /\ \E report_date \in ForecastReportDates : page_project_setup(SetupWidgets(report_date))
    /\ UNCHANGED <<arg, ret>>

EditManning ==
    /\ timesheets # <<>>
    /\ \E show_weeks \in ManningShown, filter_function \in ManningFilters :
         \E edited \in ManningEdits(ManningCells(timesheets, project_setup, staff,
                                                 show_weeks, filter_function)) :
            page_manning(show_weeks, filter_function, edited)
    /\ UNCHANGED <<arg, ret>>

NextForecast == LoadSample \/ SetReportDate \/ EditManning \/ ViewSCurves

SpecForecast == InitForecast /\ [][NextForecast]_vars

\* ---- C20 ----
\* the forecast map without its entries for weeks <= the report date
FutureEntries ==
    [key \in { k \in DOMAIN weekly_forecasts : to_datetime(k[2]) > ReportDate }
       |-> weekly_forecasts[key]]

\* the Forecast values lines 546-554 compute for this session from the map
\* `forecasts'
ForecastCurveOf(forecasts) ==
    [i \in 1..Len(SeriesWeeks) |->
       forecast_cum(timesheets, SeriesWeeks[i], ReportDate, forecasts,
                    total_budget(project_setup))]

\* C20: forecast-map entries whose week is <= the current report date are
\* ignored: after any sequence of manning-grid edits, report-date changes and
\* sample-data loads, the Forecast series of the S-curve is the series the
\* entries for weeks after the report date give alone.
C20_PastEntriesIgnored ==
    timesheets # <<>> => ForecastCurveOf(weekly_forecasts) = ForecastCurveOf(FutureEntries)

\* an entry for a week <= the report date, written when the report date was
\* earlier, adds its hours to the Forecast value of a later week
C20_PastEntryCountedReached ==
    /\ timesheets # <<>>
    /\ \E key \in DOMAIN weekly_forecasts :
         /\ to_datetime(key[2]) <= ReportDate
         /\ RLess(Zero, weekly_forecasts[key])
    /\ \E i \in 1..Len(SeriesWeeks) :
         /\ SeriesWeeks[i] > ReportDate
         /\ RLess(ForecastCurveOf(FutureEntries)[i], ForecastCurveOf(weekly_forecasts)[i])

\* the Forecast value of a week up to the report date is the Actual value of
\* that week whatever the map holds
C20_PastWeeksFromActuals ==
    timesheets # <<>> =>
        \A i \in 1..Len(SeriesWeeks) :
            SeriesWeeks[i] <= ReportDate =>
                ForecastCurveOf(weekly_forecasts)[i]
                    = RMin(actual_cum(timesheets, SeriesWeeks[i], ReportDate),
                           ForecastCap(total_budget(project_setup)))

\* ---- C21 ----
\* C21: for the deliverables table the application stores,
\* calculate_earned_value returns earned hours and earned cost instead of
\* failing, so a page that computes earned value never ends in its exception.
C21_StoredTableReturns ==
    message \in {"rendered", "exception"} =>
        /\ message = "rendered"
        /\ ~calculate_earned_value(deliverables).raised

\* the Dashboard has been opened on loaded timesheets and the script run ended
\* in the KeyError
C21_DashboardRaisedReached ==
    /\ message = "exception"
    /\ timesheets # <<>>
    /\ "earned_hours" \in deliverables.cols

\* the stored table labels the column 'Function', never 'function', and the
\* call on it raises in every state
C21_StoredTableAlwaysRaises ==
    /\ "Function" \in deliverables.cols
    /\ GroupColumn \notin deliverables.cols
    /\ deliverables.rows # <<>>
    /\ calculate_earned_value(deliverables).raised

\* ---- C22 ----
\* the Budget value of the latest series week <= the report date, 0 when no
\* series week is that early
BudgetAtReportDate(r) ==
    LET upTo == { i \in 1..Len(r.weeks) : r.weeks[i] <= ReportDate } IN
    IF upTo = {} THEN Zero
    ELSE r.budget_curve[CHOOSE i \in upTo : \A j \in upTo : j <= i]

BudgetToDateAsClaimed(r) ==
    /\ REq(r.current_budget, BudgetAtReportDate(r))
    /\ \A i \in 1..Len(r.weeks) :
         r.weeks[i] > ReportDate => RLe(r.current_budget, r.budget_curve[i])

\* C22: the budget-to-date figure of the variance analysis is the Budget
\* series at the report date: for every report date, a week-ending date of the
\* series or not, it is the Budget value of the latest series week <= the
\* report date (0 if there is none), and so never exceeds the Budget value of
\* the first series week after the report date.
C22_BudgetToDate ==
    ret.fn = "page_s_curves" => BudgetToDateAsClaimed(SeriesIfReturned)

\* the report date is no week of the series, the budget is spread over several
\* weeks, and the figure is larger than the Budget value of a later week
C22_WholeBudgetReached ==
    LET r == SeriesIfReturned IN
    /\ ret.fn = "page_s_curves"
    /\ \A i \in 1..Len(r.weeks) : r.weeks[i] # ReportDate
    /\ \E i \in 1..Len(r.weeks) :
         r.weeks[i] > ReportDate /\ RLess(r.budget_curve[i], r.current_budget)

\* what C22 says, of the report dates that are weeks of the series
C22_OnSeriesWeek ==
    (\E i \in 1..Len(SeriesWeeks) : SeriesWeeks[i] = ReportDate)
        => BudgetToDateAsClaimed(SeriesIfReturned)

C22_OnSeriesWeekReached ==
    LET r == SeriesIfReturned IN
    /\ ret.fn = "page_s_curves"
    /\ \E i \in 1..Len(r.weeks) : r.weeks[i] = ReportDate
    /\ RLess(Zero, r.current_budget)
    /\ RLess(r.current_budget, RInt(TotalBudgetHours))

\* for every other report date the figure is the whole budget
C22_OffSeriesWeekWholeBudget ==
    (\A i \in 1..Len(SeriesWeeks) : SeriesWeeks[i] # ReportDate)
        => SeriesIfReturned.current_budget = RInt(TotalBudgetHours)

\* ---- C23 ----
\* totalEarnedHours scaled by min(totalActualHoursToDate / totalBudgetHours, 1.0)
ScaledEarnedHours ==
    LET share == Frac(TotalActualHours.n, TotalActualHours.d * TotalBudgetHours) IN
    RMul(TotalEarnedHours, IF RLess(RInt(1), share) THEN RInt(1) ELSE share)

EarnedFigureAsClaimed(r) ==
    /\ \A i \in 1..Len(r.weeks) :
         r.weeks[i] <= ReportDate => REq(r.current_earned, r.earned_curve[i])
    /\ TotalBudgetHours > 0 => REq(r.current_earned, ScaledEarnedHours)

\* C23: the earned figure of the variance analysis (schedule and cost
\* variance, SPI, CPI) is the value the Earned series has for the weeks <= the
\* report date, totalEarnedHours scaled by min(totalActualHoursToDate /
\* totalBudgetHours, 1.0): the variances agree with the plotted curve.
C23_EarnedFigure ==
    /\ ret.fn = "page_s_curves"
    /\ AllHoursNumbers
    /\ \A k \in 1..Len(timesheets) : timesheets[k].hours.n >= 0
    => EarnedFigureAsClaimed(SeriesIfReturned)

\* a week up to the report date whose Earned value is positive and below the
\* figure of the variance analysis
C23_FigureAboveCurveReached ==
    LET r == SeriesIfReturned IN
    /\ ret.fn = "page_s_curves" /\ AllHoursNumbers
    /\ \E i \in 1..Len(r.weeks) :
         /\ r.weeks[i] <= ReportDate
         /\ RLess(Zero, r.earned_curve[i])
         /\ RLess(r.earned_curve[i], r.current_earned)

\* the figure is the unscaled sum, the Earned value of the weeks after the
\* report date
C23_FigureIsTotalEarned ==
    LET r == SeriesIfReturned IN
    /\ r.current_earned = TotalEarnedHours
    /\ \A i \in 1..Len(r.weeks) :
         r.weeks[i] > ReportDate => r.current_earned = r.earned_curve[i]

\* ---- SpecManning: the Manning View rendered, with or without an edit, on a
\* session that holds the sample timesheets, a report date and a forecast map
\* earlier renders left behind.
ManningReportDates == { Ordinal(2025, 10, 21), Ordinal(2025, 10, 28), Ordinal(2025, 11, 1) }

\* maps left by renders under an earlier report date: entries of one person
\* for the weeks ending 25 October and 1 and 8 November 2025
ManningForecasts ==
    { <<>>,
      ForecastKey(EditedPerson, 2025, 10, 25) :> RInt(8),
      (ForecastKey(EditedPerson, 2025, 10, 25) :> RInt(8))
          @@ (ForecastKey(EditedPerson, 2025, 11, 1) :> RInt(8)),
      (ForecastKey(EditedPerson, 2025, 11, 1) :> RInt(8))
          @@ (ForecastKey(EditedPerson, 2025, 11, 8) :> Zero) }

InitManning ==
    /\ arg = <<>>
    /\ ret = Pending
    /\ \E report_date \in ManningReportDates :
         project_setup = [InitProjectSetup(Ordinal(2025, 10, 28)) EXCEPT
                            !.client = "Liontown",
                            !.project_name = "Tails Pump Assessment",
                            !.report_by = "Will Smith",
                            !.report_date = strftime(report_date)]
    /\ staff = InitStaff
    /\ rates = InitRates
    /\ deliverables = InitDeliverables
    /\ timesheets = NormalizeSample(sample_data, InitStaff, InitRates)
    /\ weekly_forecasts \in ManningForecasts
    /\ message = "success"

\* one render of each session of InitManning: arg keeps the slider, the filter
\* and the edits of the render
RenderManning ==
    /\ ret = Pending
    /\ timesheets # <<>>
    /\ \E show_weeks \in ManningShown, filter_function \in ManningFilters :
         \E edited \in ManningEdits(ManningCells(timesheets, project_setup, staff,
                                                 show_weeks, filter_function)) :
            /\ page_manning(show_weeks, filter_function, edited)
            /\ arg' = <<show_weeks, filter_function, edited>>
    /\ ret' = [fn |-> "page_manning", val |-> <<>>]

NextManning == RenderManning

SpecManning == InitManning /\ [][NextManning]_vars

\* ---- C24 ----
\* the keys the render created, changed or removed
TouchedKeys ==
    { key \in (DOMAIN weekly_forecasts) \cup (DOMAIN weekly_forecasts') :
        \/ key \notin DOMAIN weekly_forecasts
        \/ key \notin DOMAIN weekly_forecasts'
        \/ weekly_forecasts'[key] # weekly_forecasts[key] }

\* '%Y-%m-%d' of the weeks the render displayed: weeks[:show_weeks]
DisplayedWeeks(show_weeks) ==
    { strftime(w) : w \in Range(SubSeq(ManningWeeks(timesheets, project_setup), 1, show_weeks)) }

ManningRenderAsClaimed ==
    /\ \A key \in TouchedKeys :
         /\ to_datetime(key[2]) > ReportDate
         /\ key[2] \in DisplayedWeeks(arg'[1])
         /\ key[1] \in all_staff(timesheets)
         /\ key \in DOMAIN weekly_forecasts'
    /\ \A key \in DOMAIN weekly_forecasts :
         to_datetime(key[2]) <= ReportDate
             => key \in DOMAIN weekly_forecasts' /\ weekly_forecasts'[key] = weekly_forecasts[key]
    /\ \A key \in DOMAIN arg'[3] :
         IsNaN(arg'[3][key]) => weekly_forecasts'[key] = Zero
    /\ \A key \in DOMAIN weekly_forecasts' : ~IsNaN(weekly_forecasts'[key])
    /\ UNCHANGED <<timesheets, staff, rates, deliverables, project_setup>>

\* C24: a Manning View render writes forecast-map entries only for displayed
\* weeks strictly after the report date of that render: it never creates,
\* changes or removes an entry for a week <= that report date, it stores 0.0
\* for a cell left blank, and it leaves timesheets, staff, rates, deliverables
\* and project setup as they were.
C24_ManningRender == [][RenderManning => ManningRenderAsClaimed]_vars

\* a render under a report date that is itself a week ending, which kept an
\* entry of that very week and of an earlier one, wrote entries for a later
\* week and stored 0.0 for the cell the user blanked
C24_Witness ==
    /\ ret.fn = "page_manning"
    /\ \E key \in DOMAIN weekly_forecasts :
         to_datetime(key[2]) = ReportDate /\ weekly_forecasts[key] = RInt(8)
    /\ \E key \in DOMAIN weekly_forecasts :
         /\ to_datetime(key[2]) > ReportDate
         /\ key[1] # EditedPerson
    /\ \E key \in DOMAIN arg[3] :
         IsNaN(arg[3][key]) /\ weekly_forecasts[key] = Zero

\* an edit of 8 hours is stored in the cell's entry
C24_EditStoredReached ==
    /\ ret.fn = "page_manning"
    /\ \E key \in DOMAIN arg[3] :
         arg[3][key] = RInt(8) /\ weekly_forecasts[key] = RInt(8)
         /\ to_datetime(key[2]) > ReportDate

====
